---- MODULE Spec2Model ----
(***************************************************************************)
(* Model of src/bot.js: a Telegram subscription bot.  Subscriber records   *)
(* live in a spreadsheet (sheet.getRows / addRow / row.save), the payment  *)
(* gateway is Stripe, and lifecycle events arrive on POST /stripe-webhook. *)
(* Every `await` of a handler is a point where other handlers may run, so  *)
(* each handler is a process whose pc names the await it is suspended at.  *)
(***************************************************************************)
EXTENDS Integers, Sequences, FiniteSets, TLC

(* ---- bounds ---- *)
NumUsers == 2
NumSubs == 2
MaxPeriodEnd == 2
NumWebhooks == 2
NumChats == 2
MaxInFlight == 2
MaxCustomers == 2

Users == 1..NumUsers
SubIds == 1..NumSubs
WebhookIds == 1..NumWebhooks
ChatIds == 1..NumChats

(* ---- conversions ---- *)
Digits == <<"0", "1", "2", "3", "4", "5", "6", "7", "8", "9">>

RECURSIVE ToStr(_)
\* Number.prototype.toString(): decimal digits, most significant first.
ToStr(n) == IF n < 10 THEN Digits[n + 1] ELSE ToStr(n \div 10) \o Digits[(n % 10) + 1]

Pad2(n) == IF n < 10 THEN "0" \o ToStr(n) ELSE ToStr(n)

Pad3(n) == IF n < 10 THEN "00" \o ToStr(n) ELSE IF n < 100 THEN "0" \o ToStr(n) ELSE ToStr(n)

\* Date.prototype.toISOString() for an instant of 1970-01-01 (ms < 86400000).
ToISOString(ms) ==
    "1970-01-01T" \o Pad2(ms \div 3600000) \o ":" \o Pad2((ms \div 60000) % 60) \o ":"
        \o Pad2((ms \div 1000) % 60) \o "." \o Pad3(ms % 1000) \o "Z"

PeriodEndDateInSeconds(current_period_end) == current_period_end

\* new Date(subscription.current_period_end * 1000), as milliseconds.
PeriodEndDate(current_period_end) == current_period_end * 1000

\* the endDate of a cancellation: null
NullDate == -1

\* endDate ? endDate.toISOString() : ''
EndDateString(endDate) == IF endDate = NullDate THEN "" ELSE ToISOString(endDate)

\* the instants a stored end date can denote: those of the gateway's period ends
Instants == 0..(MaxPeriodEnd * 1000)

ISOStrings == [ms \in Instants |-> ToISOString(ms)]

DateParseDateOnly(iso) ==
    IF \E ms \in Instants : ISOStrings[ms] = iso THEN 0 ELSE NullDate

\* new Date(isoString), as milliseconds; an Invalid Date is NullDate
DateParse(iso) ==
    IF \E ms \in Instants : ISOStrings[ms] = iso
    THEN CHOOSE ms \in Instants : ISOStrings[ms] = iso
    ELSE NullDate

(* ---- the store ---- *)
NoRow ==
    [telegram_id |-> "", stripe_customer_id |-> 0, subscription_status |-> "",
     subscription_end_date |-> "", created_at |-> ""]

NewRowNoCustomer(telegramId, customerId, now) ==
    [telegram_id |-> ToStr(telegramId), stripe_customer_id |-> 0,
     subscription_status |-> "inactive", subscription_end_date |-> "",
     created_at |-> ToISOString(now)]

\* the row createUser passes to sheet.addRow
NewRow(telegramId, customerId, now) ==
    [telegram_id |-> ToStr(telegramId), stripe_customer_id |-> customerId,
     subscription_status |-> "inactive", subscription_end_date |-> "",
     created_at |-> ToISOString(now)]

FindRowFirstRecord(rs, id) == IF Len(rs) > 0 THEN 1 ELSE 0

\* rows.find(row => row.get('telegram_id') === id): first match, 0 when none
FindRow(rs, id) ==
    IF \E i \in 1..Len(rs) : rs[i].telegram_id = id
    THEN CHOOSE i \in 1..Len(rs) :
            /\ rs[i].telegram_id = id
            /\ \A j \in 1..(i - 1) : rs[j].telegram_id # id
    ELSE 0

SetRowExtending(data, status, endDate) ==
    [data EXCEPT !.subscription_status = status,
                 !.subscription_end_date =
                     IF endDate # NullDate /\ data.subscription_end_date # ""
                     THEN EndDateString(endDate + 1000)
                     ELSE EndDateString(endDate)]

SetRowStatusOnly(data, status, endDate) ==
    [data EXCEPT !.subscription_status = status,
                 !.subscription_end_date =
                     IF endDate = NullDate THEN @ ELSE EndDateString(endDate)]

\* userRow.set('subscription_status', ..); userRow.set('subscription_end_date', ..)
SetRow(data, status, endDate) ==
    [data EXCEPT !.subscription_status = status,
                 !.subscription_end_date = EndDateString(endDate)]

(* ---- effects a handler has on the outside world ---- *)
\* the lifecycle fact last saved into a row: none yet
NoLifecycle == [type |-> "", subscription |-> 0, period_end |-> 0]

\* One call a handler made on the store or the notifier: op is save, msg, ban,
\* unban or answerCallbackQuery; ok its outcome; pre the subscriber's status when
\* it was made.  For a save: prior and applied are the lifecycle facts the row
\* held before and holds after, changed whether the store's contents changed.
Effect(op, kind, to, ok, pre, prior, applied, changed) ==
    [op |-> op, kind |-> kind, to |-> to, ok |-> ok, pre |-> pre,
     prior |-> prior, applied |-> applied, changed |-> changed]

\* a call on the notifier
Call(op, kind, to, ok, pre) == Effect(op, kind, to, ok, pre, NoLifecycle, NoLifecycle, FALSE)

\* rows       the sheet: one record per sheet.addRow, in sheet order (lines 24-31)
\* lastEvent  per row, the lifecycle event row.save last wrote (history, line 98)
\* customers  the gateway's customers: metadata.telegram_id by customer id (line 64)
\* subs       the gateway's subscriptions: current_period_end by id (line 273)
\* clock      new Date() of the next sheet.addRow (line 80)
\* wh, ch     the frames of the webhook handlers and of the chat handlers
VARIABLES rows, lastEvent, customers, subs, clock, wh, ch

vars == <<rows, lastEvent, customers, subs, clock, wh, ch>>

\* subscription_status of the record a telegram id resolves to ("none": no record)
StatusOf(id) ==
    IF FindRow(rows, id) = 0 THEN "none" ELSE rows[FindRow(rows, id)].subscription_status

NoEvent == [type |-> "", telegram_id |-> "", subscription |-> 0, customer |-> 0]

WhIdle ==
    [pc |-> "idle", sigOk |-> FALSE, event |-> NoEvent, telegramId |-> "",
     status |-> "", periodEnd |-> 0, endDate |-> NullDate, rowNumber |-> 0, userRow |-> NoRow,
     resp |-> 0, effects |-> <<>>]

\* failed: the upstream call whose failure ended createUser or the checkout;
\* shown: the Date a reply formats with toLocaleDateString
ChIdle ==
    [pc |-> "idle", cmd |-> "", userId |-> 0, present |-> FALSE, user |-> NoRow,
     customerId |-> 0, failed |-> "", shown |-> NullDate, effects |-> <<>>]

Init ==
    /\ rows = <<>>
    /\ lastEvent = <<>>
    /\ customers = <<>>
    /\ subs \in [SubIds -> 1..MaxPeriodEnd]
    /\ clock = 0
    /\ wh = [h \in WebhookIds |-> WhIdle]
    /\ ch = [c \in ChatIds |-> ChIdle]

(* ---- scheduling ---- *)
\* Handlers are async functions on one event loop: they interleave at their
\* awaits.  A handler that has returned shares nothing with the others, so its
\* frame is released (Respond, ChatReturn) before any other step is taken; and
\* at most MaxInFlight handlers are suspended at an await at a time.
NoneReturned ==
    /\ \A h \in WebhookIds : wh[h].pc # "done"
    /\ \A c \in ChatIds : ch[c].pc # "done"

InFlight ==
    Cardinality({h \in WebhookIds : wh[h].pc # "idle"})
        + Cardinality({c \in ChatIds : ch[c].pc # "idle"})

\* Handlers and users are interchangeable: a request takes the first free slot,
\* and telegram ids are numbered in the order their first gateway customer is made.
FirstContactOrder(u) ==
    u = 1 \/ \E i \in 1..Len(customers) : customers[i] = ToStr(u - 1)

\* chat handlers that may still call createUser
Creating ==
    Cardinality({c \in ChatIds : ch[c].pc # "idle" /\ ch[c].cmd \in {"start", "subscribe"}})

(* ---- the payment gateway moves on its own ---- *)
\* Stripe renews a subscription: its current_period_end advances.
GatewayRenew(s) ==
    /\ NoneReturned
    /\ subs[s] < MaxPeriodEnd
    /\ subs' = [subs EXCEPT ![s] = subs[s] + 1]
    /\ UNCHANGED <<rows, lastEvent, customers, clock, wh, ch>>

(* ---- POST /stripe-webhook ---- *)
\* The events the gateway can deliver in the present state.  The object of a
\* customer.subscription.deleted event is the subscription: it carries its id
\* and its customer (line 297).
Events ==
    {[type |-> "checkout.session.completed", telegram_id |-> ToStr(u),
      subscription |-> s, customer |-> 0] : u \in Users, s \in SubIds}
    \cup {[type |-> "customer.subscription.deleted", telegram_id |-> "",
            subscription |-> s, customer |-> c] : s \in SubIds, c \in 1..Len(customers)}
    \cup {[type |-> "invoice.payment_failed", telegram_id |-> "", subscription |-> 0,
            customer |-> c] : c \in 1..Len(customers)}
    \cup {[type |-> "customer.created", telegram_id |-> "", subscription |-> 0,
           customer |-> 0]}

ConstructEventUnverified(sigOk) == TRUE

BranchPcNoDefault(type) ==
    CASE type = "checkout.session.completed" -> "co_retrieve"
      [] type = "customer.subscription.deleted" -> "del_retrieve"
      [] type = "invoice.payment_failed" -> "pf_retrieve"
      [] OTHER -> "unhandled"

\* stripe.webhooks.constructEvent returns the event iff the signature verifies
ConstructEvent(sigOk) == sigOk

\* the first await of the branch `switch (event.type)` selects
BranchPc(type) ==
    CASE type = "checkout.session.completed" -> "co_retrieve"
      [] type = "customer.subscription.deleted" -> "del_retrieve"
      [] type = "invoice.payment_failed" -> "pf_retrieve"
      [] OTHER -> "done"

\* lines 248-266 and 340: verify the signature, answer 400 or dispatch on event.type
WebhookReceive(h) ==
    /\ NoneReturned
    /\ wh[h].pc = "idle"
    /\ \A g \in 1..(h - 1) : wh[g].pc # "idle"
    /\ InFlight < MaxInFlight
    /\ \E ev \in Events, sigOk \in BOOLEAN :
        wh' = [wh EXCEPT ![h] =
                 IF ConstructEvent(sigOk)
                 THEN [WhIdle EXCEPT !.pc = BranchPc(ev.type), !.sigOk = sigOk,
                                     !.event = ev,
                                     !.resp = IF BranchPc(ev.type) = "done" THEN 200 ELSE 0]
                 ELSE [WhIdle EXCEPT !.pc = "done", !.sigOk = sigOk, !.resp = 400]]
    /\ UNCHANGED <<rows, lastEvent, customers, subs, clock, ch>>

\* the response has left (line 262 or line 340): the request is over
Respond(h) ==
    /\ wh[h].pc = "done"
    /\ wh' = [wh EXCEPT ![h] = WhIdle]
    /\ UNCHANGED <<rows, lastEvent, customers, subs, clock, ch>>

\* lines 280-293: getPrivateGroupLink (never throws), then bot.sendMessage
CheckoutNotify(to, pre, msgOk) ==
    <<Call("msg", "payment_successful", to, msgOk, pre)>>

RemoveThenNotifyOneTry(to, pre, banOk, unbanOk, msgOk) ==
    <<Call("ban", "", to, banOk, pre)>>
    \o (IF banOk THEN <<Call("unban", "", to, unbanOk, pre)>> ELSE <<>>)
    \o (IF banOk /\ unbanOk
        THEN <<Call("msg", "cancelled", to, msgOk, pre)>>
        ELSE <<>>)

\* lines 304-315: ban then unban inside their own try, then bot.sendMessage
RemoveThenNotify(to, pre, banOk, unbanOk, msgOk) ==
    <<Call("ban", "", to, banOk, pre)>>
    \o (IF banOk THEN <<Call("unban", "", to, unbanOk, pre)>> ELSE <<>>)
    \o <<Call("msg", "cancelled", to, msgOk, pre)>>

\* What follows updateUserSubscription in either branch (lines 278-293, 304-318):
\* its result is not looked at.  The notifier calls touch neither the store nor
\* the gateway, so they are taken in the step that ends updateUserSubscription.
SideEffects(type, to, pre, banOk, unbanOk, msgOk) ==
    IF type = "checkout.session.completed"
    THEN CheckoutNotify(to, pre, msgOk)
    ELSE RemoveThenNotify(to, pre, banOk, unbanOk, msgOk)

\* the outcomes of the notifier calls of one branch
Outcomes(type) ==
    IF type = "checkout.session.completed"
    THEN {<<TRUE, TRUE, ok>> : ok \in BOOLEAN}
    ELSE {<<TRUE, TRUE, TRUE>>, <<TRUE, TRUE, FALSE>>, <<TRUE, FALSE, TRUE>>,
          <<TRUE, FALSE, FALSE>>, <<FALSE, FALSE, TRUE>>, <<FALSE, FALSE, FALSE>>}

\* lines 268-277: stripe.subscriptions.retrieve, then enter updateUserSubscription
CheckoutRetrieve(h) ==
    /\ NoneReturned
    /\ wh[h].pc = "co_retrieve"
    /\ \E ok \in BOOLEAN :
        wh' = [wh EXCEPT ![h] =
                 IF ok
                 THEN [@ EXCEPT !.pc = "upd_getRows",
                                !.telegramId = wh[h].event.telegram_id,
                                !.status = "active",
                                !.periodEnd = subs[wh[h].event.subscription],
                                !.endDate = PeriodEndDate(subs[wh[h].event.subscription])]
                 ELSE [@ EXCEPT !.pc = "done", !.resp = 200]]
    /\ UNCHANGED <<rows, lastEvent, customers, subs, clock, ch>>

\* lines 297-302: stripe.customers.retrieve, then enter updateUserSubscription
DeletedRetrieve(h) ==
    /\ NoneReturned
    /\ wh[h].pc = "del_retrieve"
    /\ \E ok \in BOOLEAN :
        wh' = [wh EXCEPT ![h] =
                 IF ok
                 THEN [@ EXCEPT !.pc = "upd_getRows",
                                !.telegramId = customers[wh[h].event.customer],
                                !.status = "cancelled",
                                !.endDate = NullDate]
                 ELSE [@ EXCEPT !.pc = "done", !.resp = 200]]
    /\ UNCHANGED <<rows, lastEvent, customers, subs, clock, ch>>

\* lines 93-97 and 101-104: sheet.getRows, rows.find, userRow.set; when the
\* read fails or finds no row, updateUserSubscription returns false
UpdateGetRows(h) ==
    /\ NoneReturned
    /\ wh[h].pc = "upd_getRows"
    /\ \E ok \in BOOLEAN, out \in Outcomes(wh[h].event.type) :
        LET n == FindRow(rows, wh[h].telegramId) IN
        wh' = [wh EXCEPT ![h] =
                 IF ok /\ n # 0
                 THEN [@ EXCEPT !.pc = "upd_save", !.rowNumber = n,
                                !.userRow = SetRow(rows[n], wh[h].status, wh[h].endDate)]
                 ELSE [@ EXCEPT !.pc = "done", !.resp = 200,
                                !.effects = SideEffects(wh[h].event.type, wh[h].telegramId,
                                                        StatusOf(wh[h].telegramId),
                                                        out[1], out[2], out[3])]]
    /\ UNCHANGED <<rows, lastEvent, customers, subs, clock, ch>>

\* the lifecycle fact a handler is applying
Lifecycle(w) ==
    [type |-> w.event.type, subscription |-> w.event.subscription,
     period_end |-> w.periodEnd]

\* lines 98-99 and 102-104: userRow.save writes the whole row back
UpdateSave(h) ==
    /\ NoneReturned
    /\ wh[h].pc = "upd_save"
    /\ \E ok \in BOOLEAN, out \in Outcomes(wh[h].event.type) :
        LET n == wh[h].rowNumber
            after == IF ok THEN [rows EXCEPT ![n] = wh[h].userRow] ELSE rows
            saved == IF ok
                     THEN <<Effect("save", wh[h].status, wh[h].telegramId, TRUE,
                                   rows[n].subscription_status,
                                   lastEvent[n], Lifecycle(wh[h]), after # rows)>>
                     ELSE <<>>
        IN
        /\ rows' = after
        /\ lastEvent' = IF ok THEN [lastEvent EXCEPT ![n] = Lifecycle(wh[h])] ELSE lastEvent
        /\ wh' = [wh EXCEPT ![h] =
                    [@ EXCEPT !.pc = "done", !.resp = 200,
                              !.effects = saved \o SideEffects(wh[h].event.type,
                                                               wh[h].telegramId,
                                                               after[n].subscription_status,
                                                               out[1], out[2], out[3])]]
    /\ UNCHANGED <<customers, subs, clock, ch>>

PaymentFailedNotifyAndRemove(to, pre, msgOk) ==
    <<Call("msg", "payment_failed", to, msgOk, pre), Call("ban", "", to, TRUE, pre)>>

\* lines 327-333: the warning; no group-membership call
PaymentFailedNotify(to, pre, msgOk) ==
    <<Call("msg", "payment_failed", to, msgOk, pre)>>

\* lines 322-337: stripe.customers.retrieve, then bot.sendMessage of the warning
PaymentFailed(h) ==
    /\ NoneReturned
    /\ wh[h].pc = "pf_retrieve"
    /\ \E ok \in BOOLEAN, msgOk \in BOOLEAN :
        LET to == customers[wh[h].event.customer] IN
        wh' = [wh EXCEPT ![h] =
                 IF ok
                 THEN [@ EXCEPT !.pc = "done", !.resp = 200, !.telegramId = to,
                                !.effects = PaymentFailedNotify(to, StatusOf(to), msgOk)]
                 ELSE [@ EXCEPT !.pc = "done", !.resp = 200]]
    /\ UNCHANGED <<rows, lastEvent, customers, subs, clock, ch>>

(* ---- chat commands: /start, /status and the subscribe callback ---- *)
Commands == {"start", "status", "subscribe"}

NoUser == [present |-> FALSE, user |-> NoRow]

\* lines 39-59: what getUser returns from a sheet.getRows that succeeded (ok) or threw
GetUserResult(ok, userId) ==
    LET n == IF ok THEN FindRow(rows, ToStr(userId)) ELSE 0 IN
    [present |-> n # 0, user |-> IF n # 0 THEN rows[n] ELSE NoRow]

\* lines 128-155: the message /start sends
StartMessage(present, user) ==
    IF present /\ user.subscription_status = "active" THEN "active_subscription" ELSE "welcome"

\* lines 166-182: the message /status sends
StatusMessage(present, user) ==
    IF ~present THEN "no_account"
    ELSE IF user.subscription_status = "active" THEN "subscription_active"
    ELSE "no_active_subscription"

\* lines 200-232: user.stripe_customer_id throws on a null user, and
\* stripe.checkout.sessions.create may fail: the catch answers; else the link
SubscribeMessage(present, sessionOk) ==
    IF present /\ sessionOk THEN "payment_link" ELSE "error_creating_payment"

ChatMsg(kind, userId) == Call("msg", kind, ToStr(userId), TRUE, "")

\* lines 129 and 172: new Date(user.subscription_end_date), in the active replies only
ShownDate(cmd, present, user) ==
    IF cmd \in {"start", "status"} /\ present /\ user.subscription_status = "active"
    THEN DateParse(user.subscription_end_date)
    ELSE NullDate

\* line 207: stripe.checkout.sessions.create is reached with a user and throws
SessionFailure(cmd, present, sessionOk) ==
    IF cmd = "subscribe" /\ present /\ ~sessionOk THEN "checkout.sessions.create" ELSE ""

\* The rest of the handler once `user` is settled (after getUser or createUser).
\* What is left calls only the notifier and the gateway's session creation, which
\* touch neither the store nor the customers, so it is taken in the same step.
WithUser(r, res, sessionOk) ==
    [r EXCEPT !.pc = "done", !.present = res.present, !.user = res.user,
              !.shown = ShownDate(r.cmd, res.present, res.user),
              !.failed = SessionFailure(r.cmd, res.present, sessionOk),
              !.effects = Append(@, ChatMsg(CASE r.cmd = "start" ->
                                                    StartMessage(res.present, res.user)
                                              [] r.cmd = "status" ->
                                                    StatusMessage(res.present, res.user)
                                              [] OTHER ->
                                                    SubscribeMessage(res.present, sessionOk),
                                            r.userId))]

\* lines 111-120, 159-164, 186-191: a command or callback arrives
ChatReceive(c) ==
    /\ NoneReturned
    /\ ch[c].pc = "idle"
    /\ \A d \in 1..(c - 1) : ch[d].pc # "idle"
    /\ InFlight < MaxInFlight
    /\ \E cmd \in Commands, u \in Users, private \in BOOLEAN :
        /\ cmd = "status" \/ Len(customers) + Creating < MaxCustomers
        /\ cmd = "status" \/ FirstContactOrder(u)
        /\ ch' = [ch EXCEPT ![c] =
                    IF cmd # "subscribe" /\ ~private
                    THEN [ChIdle EXCEPT !.pc = "done", !.cmd = cmd, !.userId = u]
                    ELSE [ChIdle EXCEPT !.pc = "getUser", !.cmd = cmd, !.userId = u,
                                        !.effects =
                                            IF cmd = "subscribe"
                                            THEN <<Call("answerCallbackQuery", "", ToStr(u),
                                                          TRUE, "")>>
                                            ELSE <<>>]]
    /\ UNCHANGED <<rows, lastEvent, customers, subs, clock, wh>>

\* the handler has returned
ChatReturn(c) ==
    /\ ch[c].pc = "done"
    /\ ch' = [ch EXCEPT ![c] = ChIdle]
    /\ UNCHANGED <<rows, lastEvent, customers, subs, clock, wh>>

\* lines 123-124, 164, 194-195: getUser; /start and subscribe go on to createUser on null
ChatGetUser(c) ==
    /\ NoneReturned
    /\ ch[c].pc = "getUser"
    /\ \E ok \in BOOLEAN, sessionOk \in BOOLEAN :
        LET res == GetUserResult(ok, ch[c].userId) IN
        ch' = [ch EXCEPT ![c] =
                 IF ch[c].cmd = "status" \/ res.present
                 THEN WithUser(ch[c], res, sessionOk)
                 ELSE [@ EXCEPT !.pc = "create_customer"]]
    /\ UNCHANGED <<rows, lastEvent, customers, subs, clock, wh>>

\* lines 62-70 and 85-88: stripe.customers.create
CreateCustomer(c) ==
    /\ NoneReturned
    /\ ch[c].pc = "create_customer"
    /\ \E ok \in BOOLEAN :
        IF ok
        THEN /\ customers' = Append(customers, ToStr(ch[c].userId))
             /\ ch' = [ch EXCEPT ![c] = [@ EXCEPT !.pc = "addRow",
                                                  !.customerId = Len(customers) + 1]]
        ELSE /\ customers' = customers
             /\ ch' = [ch EXCEPT ![c] = [WithUser(ch[c], NoUser, FALSE)
                                            EXCEPT !.failed = "customers.create"]]
    /\ UNCHANGED <<rows, lastEvent, subs, clock, wh>>

\* lines 72-82 and 85-88: sheet.addRow
AddRow(c) ==
    /\ NoneReturned
    /\ ch[c].pc = "addRow"
    /\ \E ok \in BOOLEAN :
        IF ok
        THEN /\ rows' = Append(rows, NewRow(ch[c].userId, ch[c].customerId, clock))
             /\ lastEvent' = Append(lastEvent, NoLifecycle)
             /\ clock' = clock + 1
             /\ ch' = [ch EXCEPT ![c] = [@ EXCEPT !.pc = "create_getUser"]]
        ELSE /\ UNCHANGED <<rows, lastEvent, clock>>
             /\ ch' = [ch EXCEPT ![c] = [WithUser(ch[c], NoUser, FALSE)
                                            EXCEPT !.failed = "sheet.addRow"]]
    /\ UNCHANGED <<customers, subs, wh>>

\* line 84: return await getUser(telegramId)
CreateGetUser(c) ==
    /\ NoneReturned
    /\ ch[c].pc = "create_getUser"
    /\ \E ok \in BOOLEAN, sessionOk \in BOOLEAN :
        ch' = [ch EXCEPT ![c] = WithUser(ch[c], GetUserResult(ok, ch[c].userId), sessionOk)]
    /\ UNCHANGED <<rows, lastEvent, customers, subs, clock, wh>>

(* ---- POST /api/verify-and-get-video/:videoId ---- *)
\* the JSON body the endpoint answers with
VideoJson(kind, userId, pre) == Call("json", kind, ToStr(userId), TRUE, pre)

VideoResponseAnyRecord(res, otpOk) ==
    IF ~res.present
    THEN "error_no_active_subscription"
    ELSE IF otpOk THEN "otp" ELSE "error_loading_video"

\* lines 530-553: the body chosen from what getUser returned and from whether
\* axios.post resolved; a throw anywhere in the try lands in the catch
VideoResponse(res, otpOk) ==
    IF ~res.present \/ res.user.subscription_status # "active"
    THEN "error_no_active_subscription"
    ELSE IF otpOk THEN "otp" ELSE "error_loading_video"

\* lines 524-526: the request arrives with its userId
VideoReceive(c) ==
    /\ NoneReturned
    /\ ch[c].pc = "idle"
    /\ \A d \in 1..(c - 1) : ch[d].pc # "idle"
    /\ InFlight < MaxInFlight
    /\ \E u \in Users :
        ch' = [ch EXCEPT ![c] = [ChIdle EXCEPT !.pc = "video_getUser", !.cmd = "video",
                                               !.userId = u]]
    /\ UNCHANGED <<rows, lastEvent, customers, subs, clock, wh>>

\* lines 528-553: getUser, the status test, then the OTP request.  The OTP
\* request touches neither the store nor the gateway, so it is taken in this step.
VideoVerify(c) ==
    /\ NoneReturned
    /\ ch[c].pc = "video_getUser"
    /\ \E ok \in BOOLEAN, otpOk \in BOOLEAN :
        LET res == GetUserResult(ok, ch[c].userId) IN
        ch' = [ch EXCEPT ![c] =
                 [@ EXCEPT !.pc = "done", !.present = res.present, !.user = res.user,
                           !.effects = <<VideoJson(VideoResponse(res, otpOk), ch[c].userId,
                                                   StatusOf(ToStr(ch[c].userId)))>>]]
    /\ UNCHANGED <<rows, lastEvent, customers, subs, clock, wh>>

Next ==
    \/ \E s \in SubIds : GatewayRenew(s)
    \/ \E h \in WebhookIds : WebhookReceive(h)
    \/ \E h \in WebhookIds : Respond(h)
    \/ \E h \in WebhookIds : CheckoutRetrieve(h)
    \/ \E h \in WebhookIds : DeletedRetrieve(h)
    \/ \E h \in WebhookIds : UpdateGetRows(h)
    \/ \E h \in WebhookIds : UpdateSave(h)
    \/ \E h \in WebhookIds : PaymentFailed(h)
    \/ \E c \in ChatIds : ChatReceive(c)
    \/ \E c \in ChatIds : ChatReturn(c)
    \/ \E c \in ChatIds : ChatGetUser(c)
    \/ \E c \in ChatIds : CreateCustomer(c)
    \/ \E c \in ChatIds : AddRow(c)
    \/ \E c \in ChatIds : CreateGetUser(c)
    \/ \E c \in ChatIds : VideoReceive(c)
    \/ \E c \in ChatIds : VideoVerify(c)

Spec == Init /\ [][Next]_vars

(* ---- the webhook endpoint on its own ---- *)
\* The store after one createUser (lines 61-84) for telegram id 1; telegram id 2
\* has no record, so its events resolve to no subscriber.
WebhookInit ==
    /\ rows = <<NewRow(1, 1, 0)>>
    /\ lastEvent = <<NoLifecycle>>
    /\ customers = <<ToStr(1)>>
    /\ subs \in [SubIds -> 1..MaxPeriodEnd]
    /\ clock = 1
    /\ wh = [h \in WebhookIds |-> WhIdle]
    /\ ch = [c \in ChatIds |-> ChIdle]

\* one await of handler h settles and its continuation runs
WebhookStep(h) ==
    \/ CheckoutRetrieve(h)
    \/ DeletedRetrieve(h)
    \/ UpdateGetRows(h)
    \/ UpdateSave(h)
    \/ PaymentFailed(h)

WebhookNext ==
    \/ \E s \in SubIds : GatewayRenew(s)
    \/ \E h \in WebhookIds : WebhookReceive(h)
    \/ \E h \in WebhookIds : Respond(h)
    \/ \E h \in WebhookIds : WebhookStep(h)

\* Every awaited call settles (it resolves or rejects), and the event loop runs
\* the continuation of a settled await and lets a finished handler return.
WebhookFairness ==
    /\ \A h \in WebhookIds : SF_vars(WebhookStep(h))
    /\ \A h \in WebhookIds : WF_vars(Respond(h))

WebhookSpec == WebhookInit /\ [][WebhookNext]_vars /\ WebhookFairness

(* ---- the handlers run back to back ---- *)
\* lines 267-278 with 91-106 when no call fails and no other handler runs in
\* between: the store after one checkout.session.completed whose subscription
\* the gateway reports to end at current_period_end
ApplyCheckout(rs, id, current_period_end) ==
    LET n == FindRow(rs, id) IN
    IF n = 0 THEN rs
    ELSE [rs EXCEPT ![n] = SetRow(rs[n], "active", PeriodEndDate(current_period_end))]

(* ---- what the claims look at ---- *)
Checkout == "checkout.session.completed"

Deleted == "customer.subscription.deleted"

PaymentFailedType == "invoice.payment_failed"

\* the calls handler h has made, in order
EffectsOf(h) == wh[h].effects

Saves(h) == {i \in 1..Len(EffectsOf(h)) : EffectsOf(h)[i].op = "save"}

Notifications(h) == {i \in 1..Len(EffectsOf(h)) : EffectsOf(h)[i].op \in {"msg", "ban", "unban"}}

(* ---- C1 ---- *)
\* C1: every record whose subscription_status is 'active' has a non-empty
\* subscription_end_date, and it is the ISO date of the period end the gateway
\* returned for the checkout.session.completed event last saved into that record.
C1_ActiveHasGatewayPeriodEnd ==
    \A i \in 1..Len(rows) :
        rows[i].subscription_status = "active" =>
            /\ rows[i].subscription_end_date # ""
            /\ lastEvent[i].type = Checkout
            /\ rows[i].subscription_end_date = ToISOString(lastEvent[i].period_end * 1000)

\* a checkout event has been saved into a record that was not active before
C1_Witness ==
    \E h \in WebhookIds : \E i \in Saves(h) :
        /\ EffectsOf(h)[i].kind = "active"
        /\ EffectsOf(h)[i].pre # "active"
        /\ rows[wh[h].rowNumber].subscription_status = "active"

(* ---- C2 ---- *)
\* C2: a webhook request whose signature does not verify is answered 400 at
\* once: it enters no event branch, saves nothing, sends no message and makes
\* no group-membership call.
C2_InvalidSignatureRejected ==
    \A h \in WebhookIds :
        (wh[h].pc # "idle" /\ ~wh[h].sigOk) =>
            /\ wh[h].pc = "done"
            /\ wh[h].resp = 400
            /\ wh[h].event = NoEvent
            /\ EffectsOf(h) = <<>>

\* a request with a bad signature has been answered while records exist
C2_Witness ==
    \E h \in WebhookIds :
        wh[h].pc = "done" /\ ~wh[h].sigOk /\ wh[h].resp = 400 /\ Len(rows) > 0

(* ---- C3 ---- *)
\* C3: in the checkout and deletion branches every message and every
\* group-membership call of a handler comes after a successful save of that handler.
C3_SideEffectsOnlyAfterSave ==
    \A h \in WebhookIds :
        wh[h].event.type \in {Checkout, Deleted} =>
            \A i \in Notifications(h) : \E j \in Saves(h) : j < i

(* ---- C4 ---- *)
\* C4: a customer.subscription.deleted or invoice.payment_failed handler makes
\* no call (save, message, group removal) on a subscriber whose status is 'inactive'.
C4_InactiveIgnoresDeletedAndFailed ==
    \A h \in WebhookIds :
        wh[h].event.type \in {Deleted, PaymentFailedType} =>
            \A i \in 1..Len(EffectsOf(h)) : EffectsOf(h)[i].pre # "inactive"

(* ---- C5 ---- *)
\* C5: a checkout event saved over a record that holds a checkout event's
\* period end never carries a smaller period end than the one it replaces.
C5_NoPeriodEndRegression ==
    \A h \in WebhookIds : \A i \in Saves(h) :
        LET e == EffectsOf(h)[i] IN
        (e.prior.type = Checkout /\ e.applied.type = Checkout) =>
            e.applied.period_end >= e.prior.period_end

(* ---- C6 ---- *)
\* C6: saving a checkout.session.completed event into a record whose last saved
\* event is that same event (same subscription, same period end reported by the
\* gateway) leaves the store exactly as it was.
C6_CheckoutIdempotent ==
    \A h \in WebhookIds : \A i \in Saves(h) :
        LET e == EffectsOf(h)[i] IN
        (e.applied.type = Checkout /\ e.prior = e.applied) => ~e.changed

\* the same checkout event has been saved a second time
C6_Witness ==
    \E h \in WebhookIds : \E i \in Saves(h) :
        LET e == EffectsOf(h)[i] IN
        e.applied.type = Checkout /\ e.prior = e.applied /\ e.pre = "active"

(* ---- C7 ---- *)
\* C7: for any two checkout events of one subscriber, handling one and then the
\* other leaves the same store as handling them in the other order.
C7_RenewalsCommute ==
    \A u \in Users, s1 \in SubIds, s2 \in SubIds :
        ApplyCheckout(ApplyCheckout(rows, ToStr(u), subs[s1]), ToStr(u), subs[s2])
            = ApplyCheckout(ApplyCheckout(rows, ToStr(u), subs[s2]), ToStr(u), subs[s1])

(* ---- C8 ---- *)
\* C8: no two webhook handlers are between their sheet.getRows and their
\* row.save for the same telegram_id at the same time.
C8_SingleWriterPerKey ==
    \A h1 \in WebhookIds, h2 \in WebhookIds :
        (h1 # h2 /\ wh[h1].pc = "upd_save" /\ wh[h2].pc = "upd_save") =>
            wh[h1].telegramId # wh[h2].telegramId

(* ---- C9 ---- *)
\* C9: the store never holds two records with the same telegram_id.
C9_OneRecordPerTelegramId ==
    \A i \in 1..Len(rows), j \in 1..Len(rows) :
        rows[i].telegram_id = rows[j].telegram_id => i = j

(* ---- C10 ---- *)
\* C10: when a customer.subscription.deleted handler has saved into an active
\* record, the record is 'cancelled' with an empty subscription_end_date, the
\* handler saved once only, it attempted the group removal, and it attempted
\* the cancellation message whatever the outcome of the group removal.
C10_CancellationEffectsIndependent ==
    \A h \in WebhookIds :
        LET e == EffectsOf(h) IN
        (wh[h].pc = "done" /\ wh[h].event.type = Deleted /\ Saves(h) # {}
            /\ e[1].pre = "active") =>
            /\ Saves(h) = {1}
            /\ rows[wh[h].rowNumber].subscription_status = "cancelled"
            /\ rows[wh[h].rowNumber].subscription_end_date = ""
            /\ Len(e) >= 3
            /\ e[2].op = "ban"
            /\ e[Len(e)].op = "msg" /\ e[Len(e)].kind = "cancelled"

\* an active subscriber was cancelled, the group removal failed, the message was sent
C10_Witness ==
    \E h \in WebhookIds :
        LET e == EffectsOf(h) IN
        /\ wh[h].pc = "done" /\ wh[h].event.type = Deleted /\ Saves(h) # {}
        /\ e[1].pre = "active"
        /\ ~e[2].ok
        /\ e[Len(e)].op = "msg" /\ e[Len(e)].ok

(* ---- C11 ---- *)
\* C11: an invoice.payment_failed handler that has resolved its customer to an
\* active subscriber has made exactly one call, the warning message to that
\* subscriber: no save, no banChatMember or unbanChatMember, and the record is
\* still 'active' with the end date its last checkout event gave it.
C11_PaymentFailedWarnsOnly ==
    \A h \in WebhookIds :
        LET e == EffectsOf(h)
            n == FindRow(rows, wh[h].telegramId)
        IN
        (wh[h].pc = "done" /\ wh[h].event.type = PaymentFailedType
            /\ Len(e) > 0 /\ e[1].pre = "active") =>
            /\ Len(e) = 1
            /\ e[1].op = "msg" /\ e[1].kind = "payment_failed"
            /\ e[1].to = customers[wh[h].event.customer]
            /\ rows[n].subscription_status = "active"
            /\ rows[n].subscription_end_date = ToISOString(lastEvent[n].period_end * 1000)

\* the warning went out to an active subscriber
C11_Witness ==
    \E h \in WebhookIds :
        /\ wh[h].pc = "done" /\ wh[h].event.type = PaymentFailedType
        /\ Len(EffectsOf(h)) = 1
        /\ EffectsOf(h)[1].pre = "active" /\ EffectsOf(h)[1].ok

(* ---- C12 ---- *)
\* the status a finished request was answered with: 400 iff the signature failed
AnsweredBySignature ==
    \A h \in WebhookIds :
        wh[h].pc = "done" => wh[h].resp = (IF wh[h].sigOk THEN 200 ELSE 400)

\* C12: every webhook request whose signature verifies is eventually answered
\* 200, whatever its event type and whatever the outcome of its gateway, store
\* and notifier calls; and a request is answered 400 only when its signature
\* does not verify.
C12_VerifiedAlwaysAcknowledged ==
    /\ []AnsweredBySignature
    /\ \A h \in WebhookIds :
          (wh[h].pc # "idle" /\ wh[h].sigOk) ~> (wh[h].pc = "done" /\ wh[h].resp = 200)

\* a checkout for a telegram id without a record was acknowledged although the
\* save did not happen and the message could not be sent
C12_Witness ==
    \E h \in WebhookIds :
        /\ wh[h].pc = "done" /\ wh[h].sigOk /\ wh[h].resp = 200
        /\ wh[h].event.type = Checkout
        /\ Saves(h) = {}
        /\ Len(EffectsOf(h)) = 1 /\ ~EffectsOf(h)[1].ok

(* ---- C13 ---- *)
\* every record names a customer the gateway made for its telegram id, and a
\* record no lifecycle event was saved into is 'inactive' with no end date
RecordsHaveGatewayCustomer ==
    \A i \in 1..Len(rows) :
        /\ rows[i].stripe_customer_id \in 1..Len(customers)
        /\ customers[rows[i].stripe_customer_id] = rows[i].telegram_id
        /\ lastEvent[i] = NoLifecycle =>
              /\ rows[i].subscription_status = "inactive"
              /\ rows[i].subscription_end_date = ""

\* the step in which stripe.customers.create fails adds no customer and no
\* record, and ends createUser with null
FailedCreateAddsNothing ==
    \A c \in ChatIds :
        (ch[c].pc = "create_customer" /\ ch'[c].failed = "customers.create") =>
            /\ rows' = rows
            /\ customers' = customers
            /\ ch'[c].pc = "done"
            /\ ~ch'[c].present
            /\ ch'[c].customerId = 0

\* C13: createUser is atomic with respect to gateway failure: when
\* stripe.customers.create fails, no record and no customer is added and
\* createUser returns null; and every record of the store carries a customer id
\* the gateway assigned for its telegram id, and starts 'inactive' with no end date.
C13_CreateUserAtomic == []RecordsHaveGatewayCustomer /\ [][FailedCreateAddsNothing]_vars

\* a customer creation has failed for a user without a record, other records existing
C13_Witness ==
    \E c \in ChatIds :
        /\ ch[c].pc = "done" /\ ch[c].failed = "customers.create"
        /\ FindRow(rows, ToStr(ch[c].userId)) = 0
        /\ Len(rows) > 0

(* ---- C14 ---- *)
\* the last message a chat handler sent ("" when it sent none)
LastMessage(c) ==
    LET e == ch[c].effects IN
    IF Len(e) > 0 /\ e[Len(e)].op = "msg" THEN e[Len(e)].kind ELSE ""

\* C14: a chat handler that ended after stripe.customers.create or
\* stripe.checkout.sessions.create failed has sent its user the error message,
\* and none of the success-path messages (welcome, payment link).
C14_GatewayFailureSurfaced ==
    \A c \in ChatIds :
        (ch[c].pc = "done"
            /\ ch[c].failed \in {"customers.create", "checkout.sessions.create"}) =>
            LastMessage(c) = "error_creating_payment"

(* ---- C15 ---- *)
\* the JSON bodies that carry an error string
VideoErrors == {"error_no_active_subscription", "error_loading_video"}

\* C15: the video endpoint answers every request with exactly one JSON body;
\* the body is {otp, playbackInfo} only if the record read for the userId was
\* 'active' when it was read; with no record, a record that is not active or a
\* failed store read it is the no-subscription error, and with a failed OTP
\* request it is the loading error.
C15_VideoOnlyForActive ==
    \A c \in ChatIds :
        (ch[c].pc = "done" /\ ch[c].cmd = "video") =>
            LET e == ch[c].effects IN
            /\ Len(e) = 1
            /\ e[1].op = "json"
            /\ e[1].kind \in {"otp"} \cup VideoErrors
            /\ e[1].kind = "otp" =>
                  /\ e[1].pre = "active"
                  /\ ch[c].present
                  /\ ch[c].user.telegram_id = ToStr(ch[c].userId)
                  /\ ch[c].user.subscription_status = "active"
            /\ (~ch[c].present \/ ch[c].user.subscription_status # "active") =>
                  e[1].kind = "error_no_active_subscription"

\* an OTP was handed to an active subscriber while another record is cancelled
C15_Witness ==
    \E c \in ChatIds :
        /\ ch[c].pc = "done" /\ ch[c].cmd = "video"
        /\ ch[c].effects[1].kind = "otp"
        /\ \E i \in 1..Len(rows) : rows[i].subscription_status = "cancelled"

(* ---- C16 ---- *)
\* a record as createUser left it: 'inactive', no end date, its customer assigned
FreshRecord(i) ==
    /\ rows[i].subscription_status = "inactive"
    /\ rows[i].subscription_end_date = ""
    /\ rows[i].stripe_customer_id \in 1..Len(customers)

\* a record after a checkout for which the gateway reported period end T
ActiveUntil(i, T) ==
    /\ rows[i].subscription_status = "active"
    /\ rows[i].subscription_end_date = ToISOString(T * 1000)

\* a /status handler that has read the record of its user and replied
StatusRead(c) == ch[c].pc = "done" /\ ch[c].cmd = "status" /\ ch[c].present

\* C16: a record no lifecycle event was saved into is 'inactive' with its
\* gateway customer assigned; a record whose last saved event is a
\* checkout.session.completed with gateway period end T is 'active' with
\* subscription_end_date T; and a /status that reads such a record reports an
\* active subscription whose expiry is T.
C16_SubscribeFlow ==
    /\ \A i \in 1..Len(rows) :
          /\ lastEvent[i] = NoLifecycle => FreshRecord(i)
          /\ lastEvent[i].type = Checkout => ActiveUntil(i, lastEvent[i].period_end)
    /\ \A c \in ChatIds :
          LET n == FindRow(rows, ToStr(ch[c].userId)) IN
          (StatusRead(c) /\ lastEvent[n].type = Checkout) =>
              /\ LastMessage(c) = "subscription_active"
              /\ ch[c].shown = lastEvent[n].period_end * 1000

\* /status has reported the period end of a checkout saved after a renewal
C16_Witness ==
    \E c \in ChatIds :
        LET n == FindRow(rows, ToStr(ch[c].userId)) IN
        /\ StatusRead(c)
        /\ LastMessage(c) = "subscription_active"
        /\ lastEvent[n].type = Checkout
        /\ ch[c].shown = lastEvent[n].period_end * 1000
        /\ lastEvent[n].period_end = MaxPeriodEnd

(* ---- C17 ---- *)
\* C17: in every reachable state, whatever calls have failed, a record whose
\* status is 'cancelled' or 'inactive' has an empty subscription_end_date:
\* status and end date are written together.
C17_NoEndDateUnlessActive ==
    \A i \in 1..Len(rows) :
        rows[i].subscription_status \in {"cancelled", "inactive"} =>
            rows[i].subscription_end_date = ""

\* an active record was cancelled by a handler whose message then failed
C17_Witness ==
    \E h \in WebhookIds :
        LET e == EffectsOf(h) IN
        /\ wh[h].pc = "done" /\ wh[h].event.type = Deleted /\ Saves(h) # {}
        /\ e[1].pre = "active" /\ e[1].changed
        /\ rows[wh[h].rowNumber].subscription_status = "cancelled"
        /\ ~e[Len(e)].ok

(* ---- C18 ---- *)
\* the records that exist before and differ after the step
ChangedRecords == {i \in 1..Len(rows) : rows'[i] # rows[i]}

\* a frame of a /status command changes in the step
StatusStep == \E c \in ChatIds : ch'[c] # ch[c] /\ "status" \in {ch[c].cmd, ch'[c].cmd}

\* what a step may do to the store
RecordFrame ==
    /\ Len(rows') >= Len(rows)
    /\ \A i \in 1..Len(rows) :
          /\ rows'[i].telegram_id = rows[i].telegram_id
          /\ rows'[i].stripe_customer_id = rows[i].stripe_customer_id
          /\ rows'[i].created_at = rows[i].created_at
    /\ Cardinality(ChangedRecords) <= 1
    /\ \A i \in ChangedRecords :
          \E h \in WebhookIds :
              /\ wh[h].pc = "upd_save" /\ wh'[h].pc = "done"
              /\ rows[i].telegram_id = wh[h].telegramId
    /\ StatusStep => rows' = rows

\* C18: a step of any handler changes at most subscription_status and
\* subscription_end_date of one record, the record whose telegram_id the event
\* resolved to; stripe_customer_id and created_at never change, no record is
\* removed, and a /status command changes nothing in the store.
C18_FrameOfRecords == [][RecordFrame]_vars

\* a save has changed one record while another record is active
C18_Witness ==
    \E h \in WebhookIds : \E i \in Saves(h) :
        /\ wh[h].pc = "done"
        /\ EffectsOf(h)[i].changed
        /\ \E j \in 1..Len(rows) :
              j # wh[h].rowNumber /\ rows[j].subscription_status = "active"

(* ---- C19 ---- *)
\* C19: no checkout.session.completed event is saved into a record whose last
\* saved event is the customer.subscription.deleted of the same subscription:
\* once a subscription is deleted its subscriber is not made 'active' by it again.
C19_DeletedStaysCancelled ==
    \A h \in WebhookIds : \A i \in Saves(h) :
        LET e == EffectsOf(h)[i] IN
        ~(/\ e.applied.type = Checkout
          /\ e.prior.type = Deleted
          /\ e.prior.subscription = e.applied.subscription)

(* ---- C20 ---- *)
\* a handler goes from getUser on to createUser although its user has a record
CreatesDespiteRecord ==
    \E c \in ChatIds :
        /\ ch[c].pc = "getUser" /\ ch'[c].pc = "create_customer"
        /\ FindRow(rows, ToStr(ch[c].userId)) # 0

\* C20: /start and the subscribe callback never go on to createUser from a
\* getUser made while the store holds a record for their user, even when that
\* read fails.
C20_ReadFailureIsNotAbsence == [][~CreatesDespiteRecord]_vars

====
